---------------------------- MODULE Spec2Model ----------------------------
(***************************************************************************)
(* cli-mcp: the version resolver of src/cli_mcp/__init__.py, the           *)
(* `python -m cli_mcp --version` entry point exercised by                  *)
(* tests/test_main.py and the evict / re-import / read consumer of         *)
(* tests/test_init.py.                                                     *)
(*                                                                         *)
(* The module body of __init__.py is                                       *)
(*     3  try:                                                             *)
(*     4      from importlib.metadata import version                       *)
(*     6      __version__ = version("cli-mcp")                             *)
(*     7  except Exception:                                                *)
(*     8      __version__ = "dev"                                          *)
(* One action models each statement; pc is the interpreter's position.     *)
(* The metadata provider is the environment: each statement that calls     *)
(* into it draws the provider's behaviour (a returned string or a raised   *)
(* error) from a small set.                                                *)
(***************************************************************************)
EXTENDS Naturals, Sequences, FiniteSets, TLC

VARIABLES
    kind,         \* "cli": python -m cli_mcp --version; "lib": an importing consumer
    sys_modules,  \* the import cache: module name -> module object (index in modules, 0: foreign)
    modules,      \* every cli_mcp module object created so far, in creation order
    pc,           \* the interpreter's position
    exc,          \* the exception being propagated ("" when none)
    queried,      \* the package names handed to version(), in call order
    stdout,       \* lines written to standard output
    returncode,   \* <<>> while the process runs, <<status>> once it has exited
    obs           \* what the consumer's last read of cli_mcp.__version__ gave

vars == <<kind, sys_modules, modules, pc, exc, queried, stdout, returncode, obs>>

-----------------------------------------------------------------------------
(* Bounds *)

\* How many times the package may be loaded in one process (first import plus re-imports).
MaxLoads == 3

-----------------------------------------------------------------------------
(* The environment: what the metadata provider can do *)

\* Version strings the provider may return, the empty string and "dev" included.
Versions == {"", "dev", "0.1.0"}

\* Errors that are instances of Exception.
ExceptionKinds == {"PackageNotFoundError", "OSError", "ValueError", "ImportError"}

\* Errors that derive from BaseException but not from Exception.
BaseOnlyKinds == {"KeyboardInterrupt", "SystemExit(1)"}

ErrorKinds == ExceptionKinds \cup BaseOnlyKinds

Return(v) == [kind |-> "return", val |-> v]
Raise(e) == [kind |-> "raise", val |-> e]
NotRun == [kind |-> "notrun", val |-> ""]

\* Behaviours of `from importlib.metadata import version`.
ImportBehaviours == {Return("version")} \cup {Raise(e) : e \in {"ImportError", "KeyboardInterrupt"}}

\* Behaviours of version("cli-mcp").
LookupBehaviours == {Return(v) : v \in Versions}
                    \cup {Raise(e) : e \in ErrorKinds \ {"ImportError"}}

-----------------------------------------------------------------------------
(* Python runtime helpers *)

\* isinstance(e, Exception): the filter of the `except Exception:` clause.
IsException(e) == e \in ExceptionKinds

\* The exit status of a process ended by an uncaught error.
UncaughtStatus(e) == IF e = "KeyboardInterrupt" THEN 130 ELSE 1

\* A fresh module object: an empty namespace and the record of what the
\* provider did during its load (imp, look: history of the environment).
NewModule == [ns |-> <<>>, imp |-> NotRun, look |-> NotRun, nlook |-> 0, status |-> "loading"]

\* The name -> value function f with name n bound to v.
Bind(f, n, v) == [m \in DOMAIN f \cup {n} |-> IF m = n THEN v ELSE f[m]]

\* The function f without the key n.
Unbind(f, n) == [m \in DOMAIN f \ {n} |-> f[m]]

Cached == "cli_mcp" \in DOMAIN sys_modules
cur == sys_modules["cli_mcp"]

\* The package name of line 6.
PackageName == "cli-mcp"

\* Faulty variant: another fallback literal.
FallbackOther == "unknown"

\* The fallback literal of line 8.
Fallback == "dev"

-----------------------------------------------------------------------------
(* Initial state: a fresh interpreter; importlib.metadata may already be cached *)

Init ==
    /\ kind \in {"cli", "lib"}
    /\ sys_modules \in {<<>>, [n \in {"importlib.metadata"} |-> 0]}
    /\ modules = <<>>
    /\ pc = "idle"
    /\ exc = ""
    /\ queried = <<>>
    /\ stdout = <<>>
    /\ returncode = <<>>
    /\ obs = [kind |-> "none", val |-> ""]

-----------------------------------------------------------------------------
(* The import machinery *)

\* `import cli_mcp` (or runpy importing the package for -m) with the module
\* not in the cache: a new module object is cached and its body starts.
ImportPackage ==
    /\ pc = "idle"
    /\ ~Cached
    /\ Len(modules) < MaxLoads
    /\ kind = "cli" => modules = <<>>
    /\ modules' = Append(modules, NewModule)
    /\ sys_modules' = Bind(sys_modules, "cli_mcp", Len(modules) + 1)
    /\ pc' = "line4"
    /\ UNCHANGED <<kind, exc, queried, stdout, returncode, obs>>

\* Faulty variant: the handler catches PackageNotFoundError only.
DispatchNarrow(e) == IF e = "PackageNotFoundError" THEN "line8" ELSE "unwind"

\* Faulty variant: no handler at all, every error leaves the module body.
DispatchNone(e) == "unwind"

\* Where control goes when a statement inside the try block raises e:
\* the handler of line 7 when e is an Exception, out of the module otherwise.
Dispatch(e) == IF IsException(e) THEN "line8" ELSE "unwind"

\* Faulty variant: the import statement sits above the try block, so an
\* error it raises is not handled.
ImportVersionOutsideTry ==
    /\ pc = "line4"
    /\ \E b \in ImportBehaviours :
        /\ modules' = [modules EXCEPT ![cur] =
                         [@ EXCEPT !.imp = b,
                                   !.ns = IF b.kind = "return"
                                          THEN Bind(@, "version", "<function version>")
                                          ELSE @]]
        /\ sys_modules' = IF b.kind = "return"
                          THEN Bind(sys_modules, "importlib.metadata", 0)
                          ELSE sys_modules
        /\ pc' = IF b.kind = "return" THEN "line6" ELSE "unwind"
        /\ exc' = IF b.kind = "return" THEN "" ELSE b.val
    /\ UNCHANGED <<kind, queried, stdout, returncode, obs>>

\* Line 4: from importlib.metadata import version
ImportVersion ==
    /\ pc = "line4"
    /\ \E b \in ImportBehaviours :
        /\ modules' = [modules EXCEPT ![cur] =
                         [@ EXCEPT !.imp = b,
                                   !.ns = IF b.kind = "return"
                                          THEN Bind(@, "version", "<function version>")
                                          ELSE @]]
        /\ sys_modules' = IF b.kind = "return"
                          THEN Bind(sys_modules, "importlib.metadata", 0)
                          ELSE sys_modules
        /\ pc' = IF b.kind = "return" THEN "line6" ELSE Dispatch(b.val)
        /\ exc' = IF b.kind = "return" THEN "" ELSE b.val
    /\ UNCHANGED <<kind, queried, stdout, returncode, obs>>

\* Faulty variant: __version__ = version("cli-mcp") or "dev", which replaces
\* an empty version string by the fallback.
CallVersionOrDev ==
    /\ pc = "line6"
    /\ \E b \in LookupBehaviours :
        /\ modules' = [modules EXCEPT ![cur] =
                         [@ EXCEPT !.look = b,
                                   !.nlook = @ + 1,
                                   !.ns = IF b.kind = "return"
                                          THEN Bind(@, "__version__",
                                                    IF b.val = "" THEN "dev" ELSE b.val)
                                          ELSE @,
                                   !.status = IF b.kind = "return" THEN "loaded" ELSE @]]
        /\ pc' = IF b.kind = "return" THEN "idle" ELSE Dispatch(b.val)
        /\ exc' = IF b.kind = "return" THEN "" ELSE b.val
    /\ queried' = Append(queried, PackageName)
    /\ UNCHANGED <<kind, sys_modules, stdout, returncode, obs>>

\* Faulty variant: the fallback assignment sits in a finally clause, so it
\* also runs after a successful lookup.
CallVersionThenFallback ==
    /\ pc = "line6"
    /\ \E b \in LookupBehaviours :
        /\ modules' = [modules EXCEPT ![cur] =
                         [@ EXCEPT !.look = b,
                                   !.nlook = @ + 1,
                                   !.ns = IF b.kind = "return"
                                          THEN Bind(@, "__version__", b.val)
                                          ELSE @]]
        /\ pc' = IF b.kind = "return" THEN "line8" ELSE Dispatch(b.val)
        /\ exc' = IF b.kind = "return" THEN "" ELSE b.val
    /\ queried' = Append(queried, PackageName)
    /\ UNCHANGED <<kind, sys_modules, stdout, returncode, obs>>

\* Faulty variant: the value resolved by an earlier load is kept in a
\* process-wide cache and reused instead of the provider's answer.
CallVersionSticky ==
    /\ pc = "line6"
    /\ \E b \in LookupBehaviours :
        /\ modules' = [modules EXCEPT ![cur] =
                         [@ EXCEPT !.look = b,
                                   !.nlook = @ + 1,
                                   !.ns = IF b.kind = "return"
                                          THEN Bind(@, "__version__",
                                                    IF cur > 1
                                                       /\ "__version__" \in DOMAIN modules[cur - 1].ns
                                                    THEN modules[cur - 1].ns["__version__"]
                                                    ELSE b.val)
                                          ELSE @,
                                   !.status = IF b.kind = "return" THEN "loaded" ELSE @]]
        /\ pc' = IF b.kind = "return" THEN "idle" ELSE Dispatch(b.val)
        /\ exc' = IF b.kind = "return" THEN "" ELSE b.val
    /\ queried' = Append(queried, PackageName)
    /\ UNCHANGED <<kind, sys_modules, stdout, returncode, obs>>

\* Line 6: __version__ = version("cli-mcp")
CallVersion ==
    /\ pc = "line6"
    /\ \E b \in LookupBehaviours :
        /\ modules' = [modules EXCEPT ![cur] =
                         [@ EXCEPT !.look = b,
                                   !.nlook = @ + 1,
                                   !.ns = IF b.kind = "return"
                                          THEN Bind(@, "__version__", b.val)
                                          ELSE @,
                                   !.status = IF b.kind = "return" THEN "loaded" ELSE @]]
        /\ pc' = IF b.kind = "return" THEN "idle" ELSE Dispatch(b.val)
        /\ exc' = IF b.kind = "return" THEN "" ELSE b.val
    /\ queried' = Append(queried, PackageName)
    /\ UNCHANGED <<kind, sys_modules, stdout, returncode, obs>>

\* Faulty variant: except Exception: raise.
ExceptHandlerReraise ==
    /\ pc = "line8"
    /\ pc' = "unwind"
    /\ UNCHANGED <<kind, sys_modules, modules, exc, queried, stdout, returncode, obs>>

\* Faulty variant: except Exception: pass, which leaves __version__ unset.
ExceptHandlerPass ==
    /\ pc = "line8"
    /\ modules' = [modules EXCEPT ![cur] = [@ EXCEPT !.status = "loaded"]]
    /\ pc' = "idle"
    /\ exc' = ""
    /\ UNCHANGED <<kind, sys_modules, queried, stdout, returncode, obs>>

\* Faulty variant: the handler asks the provider once more before it falls back.
ExceptHandlerRetry ==
    /\ pc = "line8"
    /\ modules' = [modules EXCEPT ![cur] =
                     [@ EXCEPT !.ns = Bind(@, "__version__", Fallback),
                               !.nlook = @ + 1,
                               !.status = "loaded"]]
    /\ queried' = Append(queried, PackageName)
    /\ pc' = "idle"
    /\ exc' = ""
    /\ UNCHANGED <<kind, sys_modules, stdout, returncode, obs>>

\* Lines 7-8: except Exception: __version__ = "dev"
ExceptHandler ==
    /\ pc = "line8"
    /\ modules' = [modules EXCEPT ![cur] =
                     [@ EXCEPT !.ns = Bind(@, "__version__", Fallback),
                               !.status = "loaded"]]
    /\ pc' = "idle"
    /\ exc' = ""
    /\ UNCHANGED <<kind, sys_modules, queried, stdout, returncode, obs>>

\* An error the handler does not match leaves the module body: the import
\* fails, the half-built module is dropped from the cache, and the process
\* ends with the error uncaught.
Unwind ==
    /\ pc = "unwind"
    /\ modules' = [modules EXCEPT ![cur] = [@ EXCEPT !.status = "failed"]]
    /\ sys_modules' = Unbind(sys_modules, "cli_mcp")
    /\ returncode' = <<UncaughtStatus(exc)>>
    /\ pc' = "exited"
    /\ UNCHANGED <<kind, exc, queried, stdout, obs>>

-----------------------------------------------------------------------------
(* The command-line entry point *)

\* The line --version prints.
VersionLine(v) == "cli-mcp version: " \o v

\* python -m cli_mcp --version, once the package is loaded.
Main ==
    /\ kind = "cli"
    /\ pc = "idle"
    /\ Cached
    /\ IF "__version__" \in DOMAIN modules[cur].ns
       THEN /\ stdout' = Append(stdout, VersionLine(modules[cur].ns["__version__"]))
            /\ returncode' = <<0>>
       ELSE /\ stdout' = stdout
            /\ returncode' = <<1>>
    /\ pc' = "exited"
    /\ UNCHANGED <<kind, sys_modules, modules, exc, queried, obs>>

-----------------------------------------------------------------------------
(* The importing consumer *)

\* The consumer reads cli_mcp.__version__ of the cached module.
Read ==
    /\ kind = "lib"
    /\ pc = "idle"
    /\ Cached
    /\ obs' = IF "__version__" \in DOMAIN modules[cur].ns
              THEN [kind |-> "value", val |-> modules[cur].ns["__version__"]]
              ELSE [kind |-> "AttributeError", val |-> ""]
    /\ UNCHANGED <<kind, sys_modules, modules, pc, exc, queried, stdout, returncode>>

\* The consumer drops the module from the cache to force a re-import.
Evict ==
    /\ kind = "lib"
    /\ pc = "idle"
    /\ Cached
    /\ sys_modules' = Unbind(sys_modules, "cli_mcp")
    /\ UNCHANGED <<kind, modules, pc, exc, queried, stdout, returncode, obs>>

-----------------------------------------------------------------------------

Next ==
    \/ ImportPackage
    \/ ImportVersion
    \/ CallVersion
    \/ ExceptHandler
    \/ Unwind
    \/ Main
    \/ Read
    \/ Evict

Spec == Init /\ [][Next]_vars

-----------------------------------------------------------------------------
(* Properties *)

Loads == 1..Len(modules)

\* The load of module object i is over (it completed or it failed).
Finished(i) == modules[i].status # "loading"

Resolved(i) == "__version__" \in DOMAIN modules[i].ns

VersionOf(i) == modules[i].ns["__version__"]

LookupRaised(i) == modules[i].look.kind = "raise"

LookupRaisedException(i) == LookupRaised(i) /\ modules[i].look.val \in ExceptionKinds

ImportRaised(i) == modules[i].imp.kind = "raise"

ImportRaisedException(i) == ImportRaised(i) /\ modules[i].imp.val \in ExceptionKinds

\* C1 (as stated): whenever version("cli-mcp") raised, of whatever kind, the
\* finished load left __version__ equal to "dev".
C1_FallbackOnAnyError ==
    \A i \in Loads :
        (LookupRaised(i) /\ Finished(i))
            => (modules[i].status = "loaded" /\ Resolved(i) /\ VersionOf(i) = "dev")

\* C1 (amended): whenever version("cli-mcp") raised an error that is an
\* instance of Exception, the finished load left __version__ equal to "dev";
\* an error outside Exception is the only thing that ends a load as failed.
C1_FallbackOnException ==
    /\ \A i \in Loads :
        (LookupRaisedException(i) /\ Finished(i))
            => (modules[i].status = "loaded" /\ Resolved(i) /\ VersionOf(i) = "dev")
    /\ \A i \in Loads :
        (LookupRaised(i) /\ modules[i].status = "failed")
            => modules[i].look.val \in BaseOnlyKinds

C1_Witness ==
    \E i \in Loads :
        /\ modules[i].look = Raise("OSError")
        /\ modules[i].status = "loaded"
        /\ VersionOf(i) = "dev"

\* C2: whenever version("cli-mcp") returned v, the load completed with
\* __version__ equal to v, unchanged, the empty string and "dev" included.
C2_SuccessKeepsValue ==
    \A i \in Loads :
        modules[i].look.kind = "return"
            => (modules[i].status = "loaded" /\ Resolved(i)
                /\ VersionOf(i) = modules[i].look.val)

C2_Witness ==
    \E i, j \in Loads :
        /\ modules[i].look = Return("") /\ VersionOf(i) = ""
        /\ modules[j].look = Return("dev") /\ VersionOf(j) = "dev"

\* C3 (as stated): no error raised by the lookup ever leaves the module body:
\* no load ends as failed after the lookup raised.
C3_NeverPropagates ==
    \A i \in Loads : LookupRaised(i) => modules[i].status # "failed"

\* C3 (amended): an Exception raised by the lookup never leaves the module
\* body: control never unwinds with it, the process never exits on it, and
\* the finished load has __version__ defined.
C3_ExceptionNeverPropagates ==
    /\ pc \in {"unwind", "exited"} => exc \notin ExceptionKinds
    /\ \A i \in Loads :
        LookupRaisedException(i)
            => (modules[i].status # "failed" /\ (Finished(i) => Resolved(i)))

C3_Witness ==
    /\ kind = "lib"
    /\ pc = "idle"
    /\ returncode = <<>>
    /\ \E i \in Loads : modules[i].look = Raise("ValueError") /\ Resolved(i)

\* C10 (as stated): whenever the import of the lookup function raised, no
\* lookup was made and the finished load left __version__ equal to "dev".
C10_ImportFailureFallsBack ==
    \A i \in Loads :
        ImportRaised(i)
            => /\ modules[i].nlook = 0
               /\ Finished(i) => (modules[i].status = "loaded" /\ Resolved(i)
                                  /\ VersionOf(i) = "dev")

\* C10 (amended): whenever the import of the lookup function raised an
\* Exception (such as ImportError), no lookup was made and the finished load
\* left __version__ equal to "dev".
C10_ImportExceptionFallsBack ==
    \A i \in Loads :
        /\ ImportRaised(i) => (modules[i].nlook = 0 /\ modules[i].look = NotRun)
        /\ ImportRaisedException(i)
            => /\ modules[i].status # "failed"
               /\ Finished(i) => (Resolved(i) /\ VersionOf(i) = "dev")

C10_Witness ==
    /\ queried = <<>>
    /\ \E i \in Loads :
        /\ modules[i].imp = Raise("ImportError")
        /\ modules[i].status = "loaded"
        /\ VersionOf(i) = "dev"

\* The provider raised nothing outside Exception during load i.
NoBaseError(i) ==
    /\ ImportRaised(i) => modules[i].imp.val \in ExceptionKinds
    /\ LookupRaised(i) => modules[i].look.val \in ExceptionKinds

\* The provider failed during load i (the import or the lookup raised).
ProviderFailed(i) == ImportRaised(i) \/ LookupRaised(i)

CliExited == kind = "cli" /\ pc = "exited"

C7_ResolveBeforeObserve ==
    /\ (pc = "idle" /\ Cached) => Resolved(cur)
    /\ obs.kind # "AttributeError"
    /\ obs.kind = "value"
        => \/ obs.val = "dev"
           \/ \E i \in Loads : modules[i].look = Return(obs.val)

C7_Witness ==
    /\ obs = [kind |-> "value", val |-> "dev"]
    /\ \E i \in Loads : modules[i].imp = Raise("ImportError")
    /\ \A i \in Loads : modules[i].look.kind # "return"

\* What load i came to: how it ended and the namespace it left.
Outcome(i) ==
    [status |-> modules[i].status,
     names |-> DOMAIN modules[i].ns,
     version |-> IF Resolved(i) THEN <<VersionOf(i)>> ELSE <<>>]

\* C8: two finished loads under the same provider behaviour (same import
\* behaviour, same returned string or raised error) came to the same outcome,
\* whatever was loaded in between.
C8_Idempotent ==
    \A i, j \in Loads :
        (Finished(i) /\ Finished(j)
         /\ modules[i].imp = modules[j].imp /\ modules[i].look = modules[j].look)
            => Outcome(i) = Outcome(j)

C8_Witness ==
    \E i, k, j \in Loads :
        /\ i < k /\ k < j
        /\ modules[i].look = Return("0.1.0") /\ modules[j].look = Return("0.1.0")
        /\ modules[k].look = Raise("OSError")
        /\ VersionOf(i) = "0.1.0" /\ VersionOf(k) = "dev" /\ VersionOf(j) = "0.1.0"

InResolver == pc \in {"line4", "line6", "line8"}

\* What a resolver step leaves alone in every case: output, exit status,
\* the consumer's reads, the other module objects, the cache entry of the
\* package itself.
OutsideUntouched ==
    /\ stdout' = stdout /\ returncode' = returncode /\ obs' = obs /\ kind' = kind
    /\ Len(modules') = Len(modules)
    /\ \A i \in Loads : i # cur => modules'[i] = modules[i]
    /\ "cli_mcp" \in DOMAIN sys_modules' /\ sys_modules'["cli_mcp"] = cur

=============================================================================
